---- MODULE Spec2Model ----
(***************************************************************************)
(* Assembler phase I for the DM2019W assembly language: line              *)
(* classification (parse_line), the symbol-table pass (resolve), the      *)
(* rewrite pass (transform) and the driver (main), as implemented in       *)
(* assembler_phase1.py and in its near-duplicate fadfa.py.                 *)
(*                                                                         *)
(* A source line is a sequence of lexemes (tokens).  A token is a string: *)
(* a word, a punctuation character, a single blank " " or a newline "\n". *)
(* The character classes of the regular expressions become lexical classes*)
(* of words; the regular expressions themselves are matched over tokens,   *)
(* with their optional parts and their capture groups.                     *)
(***************************************************************************)
EXTENDS Integers, Sequences, FiniteSets, TLC

(***************************************************************************)
(* Bounds of the model.                                                    *)
(***************************************************************************)
\* longest input file of the general specification Spec
MaxLines == 3
\* longest input file of the error-threshold specification SpecErr
MaxErrLines == 7

(***************************************************************************)
(* The two implementations.                                                *)
(***************************************************************************)
Impls == {"phase1", "fadfa"}

\* Abandon assembly if we exceed this
ERROR_LIMIT == 5

(***************************************************************************)
(* Lexical classes.                                                        *)
(***************************************************************************)
\* \s
WS == {" ", "\n"}
\* [A-Z]+
UpperWords == {"STORE", "SUB", "JUMP", "DATA", "HALT", "LOAD", "ADD", "LDA", "P"}
\* [a-zA-Z]+
AlphaWords == UpperWords \cup {"again", "x", "y", "jump", "load", "None"}
\* r[0-9]+
RegWords == {"r0", "r1", "r15"}
\* [a-zA-Z]\w*
IdentWords == AlphaWords \cup RegWords
\* decimal numerals, in order: DecWords[n+1] is the numeral of n
DecWords == <<"0", "1", "2", "3", "4", "5", "6", "7", "8", "9", "10", "11", "12">>
\* 0x[a-fA-F0-9]+
HexWords == {"0x2a"}

IsUpper(w) == w \in UpperWords
IsAlpha(w) == w \in AlphaWords
IsReg(w) == w \in RegWords
IsIdent(w) == w \in IdentWords
IsDec(w) == \E k \in 1..Len(DecWords) : DecWords[k] = w
IsHex(w) == w \in HexWords
\* a word in which the negative lookahead (?!LDA|lda) fails at some letter
ContainsLDA(w) == w \in {"LDA"}

\* str.upper() on a word
Upper(w) ==
    CASE w = "jump" -> "JUMP"
      [] w = "load" -> "LOAD"
      [] w = "again" -> "AGAIN"
      [] w = "x" -> "X"
      [] w = "y" -> "Y"
      [] w = "None" -> "NONE"
      [] OTHER -> w

\* str(n) for an integer n, as tokens
IntStr(n) == IF n < 0 THEN <<"-", DecWords[(-n) + 1]>> ELSE <<DecWords[n + 1]>>

(***************************************************************************)
(* Matching helpers.                                                       *)
(***************************************************************************)
EOL == "<eol>"
NoMatch == [kind |-> "NOMATCH"]

\* the token at position i, or EOL past the end of the line
Tok(s, i) == IF i >= 1 /\ i <= Len(s) THEN s[i] ELSE EOL

\* \s* from position i: the position after the blanks
RECURSIVE SkipWS(_, _)
SkipWS(s, i) == IF i <= Len(s) /\ s[i] \in WS THEN SkipWS(s, i + 1) ELSE i

\* .* from position i: the position of the first newline at or after i
RECURSIVE SkipDot(_, _)
SkipDot(s, i) == IF i <= Len(s) /\ s[i] # "\n" THEN SkipDot(s, i + 1) ELSE i

\* str.rstrip()
RECURSIVE rstrip(_)
rstrip(s) == IF Len(s) > 0 /\ s[Len(s)] \in WS THEN rstrip(SubSeq(s, 1, Len(s) - 1)) ELSE s

\* \s* ( (?P<label> [a-zA-Z]\w*): )? \s*
\* [label, pos: the position after the prefix]
Prefix(s) ==
    LET P(i0, hasLabel) ==
            [label |-> IF hasLabel THEN <<s[i0]>> ELSE <<>>,
             pos |-> SkipWS(s, IF hasLabel THEN i0 + 2 ELSE i0)]
        L(i0) == P(i0, IsIdent(Tok(s, i0)) /\ Tok(s, i0 + 1) = ":")
    IN  L(SkipWS(s, 1))

\* ( \s* (?P<comment>[\#;].*) )? \s*$  from position i
\* [ok, comment]
Trailer(s, i) ==
    LET T(j) ==
            IF Tok(s, j) \in {"#", ";"}
            THEN [ok |-> SkipWS(s, SkipDot(s, j)) > Len(s),
                  comment |-> SubSeq(s, j, SkipDot(s, j) - 1)]
            ELSE [ok |-> j > Len(s), comment |-> <<>>]
    IN  T(SkipWS(s, i))

\* (/ (?P<predicate> [A-Z]+) )?  from position i
\* [predicate, pos: the position after it]
Pred(s, i) ==
    IF Tok(s, i) = "/" /\ IsUpper(Tok(s, i + 1))
    THEN [predicate |-> <<s[i + 1]>>, pos |-> i + 2]
    ELSE [predicate |-> <<>>, pos |-> i]

\* prefix, opcode word, optional predicate and \s+ of an instruction
\* [label, op: the opcode token, predicate, sep: \s+ matched, pos: after it]
Instr(s) ==
    LET H(p, q) ==
            [label |-> p.label, op |-> Tok(s, p.pos), predicate |-> q.predicate,
             sep |-> Tok(s, q.pos) \in WS, pos |-> SkipWS(s, q.pos)]
        Q(p) == H(p, Pred(s, p.pos + 1))
    IN  Q(Prefix(s))

(***************************************************************************)
(* The five line grammars.  A group that did not take part in the match    *)
(* (None in the groupdict) is the empty sequence: no group matches the     *)
(* empty string.                                                           *)
(***************************************************************************)
MatchCOMMENT(impl_, s) ==
    LET M(p, t) ==
            IF t.ok
            THEN [kind |-> "COMMENT", label |-> p.label, comment |-> t.comment]
            ELSE NoMatch
        A(p) == M(p, Trailer(s, p.pos))
    IN  A(Prefix(s))

MatchFULL(impl_, s) ==
    LET M(h, off, t) ==
            IF /\ IsAlpha(h.op) /\ h.sep
               /\ IsReg(Tok(s, h.pos)) /\ Tok(s, h.pos + 1) = ","
               /\ IsReg(Tok(s, h.pos + 2)) /\ Tok(s, h.pos + 3) = ","
               /\ IsReg(Tok(s, h.pos + 4))
               /\ t.ok
            THEN [kind |-> "FULL", label |-> h.label, opcode |-> <<h.op>>,
                  predicate |-> h.predicate, target |-> <<s[h.pos]>>,
                  src1 |-> <<s[h.pos + 2]>>, src2 |-> <<s[h.pos + 4]>>,
                  offset |-> off.offset, comment |-> t.comment]
            ELSE NoMatch
        \* (\[ (?P<offset>[-]?[0-9]+) \])?  from position i
        Offset(i, j) ==
            IF Tok(s, i) = "[" /\ IsDec(Tok(s, j)) /\ Tok(s, j + 1) = "]"
            THEN [offset |-> SubSeq(s, i + 1, j), pos |-> j + 2]
            ELSE [offset |-> <<>>, pos |-> i]
        B(h, off) == M(h, off, Trailer(s, off.pos))
        A(h) == B(h, Offset(h.pos + 5,
                            IF Tok(s, h.pos + 6) = "-" THEN h.pos + 7 ELSE h.pos + 6))
    IN  A(Instr(s))

MatchMEMOP(impl_, s) ==
    LET M(h, t) ==
            IF /\ IsAlpha(h.op)
               /\ (impl_ = "fadfa" => ~ContainsLDA(h.op))
               /\ h.sep
               /\ IsReg(Tok(s, h.pos)) /\ Tok(s, h.pos + 1) = ","
               /\ IsIdent(Tok(s, h.pos + 2))
               /\ t.ok
            THEN [kind |-> "MEMOP", label |-> h.label, opcode |-> <<h.op>>,
                  predicate |-> h.predicate, target |-> <<s[h.pos]>>,
                  labelref |-> <<s[h.pos + 2]>>, comment |-> t.comment]
            ELSE NoMatch
        A(h) == M(h, Trailer(s, h.pos + 3))
    IN  A(Instr(s))

MatchJUMP(impl_, s) ==
    LET M(h, t) ==
            IF /\ h.op \in (IF impl_ = "fadfa" THEN {"JUMP", "jump"} ELSE {"JUMP"})
               /\ h.sep
               /\ IsIdent(Tok(s, h.pos))
               /\ t.ok
            THEN [kind |-> "JUMP", label |-> h.label, opcode |-> <<h.op>>,
                  predicate |-> h.predicate, labelref |-> <<s[h.pos]>>,
                  comment |-> t.comment]
            ELSE NoMatch
        A(h) == M(h, Trailer(s, h.pos + 1))
    IN  A(Instr(s))

MatchDATA(impl_, s) ==
    LET M(p, q, v, t) ==
            IF /\ Tok(s, p.pos) \in
                    (IF impl_ = "fadfa" THEN {"DATA", "data"} ELSE {"DATA"})
               /\ t.ok
            THEN IF impl_ = "fadfa"
                 THEN [kind |-> "DATA", label |-> p.label, opcode |-> <<s[p.pos]>>,
                       predicate |-> q.predicate, value |-> v.value,
                       comment |-> t.comment]
                 ELSE [kind |-> "DATA", label |-> p.label, opcode |-> <<s[p.pos]>>,
                       value |-> v.value, comment |-> t.comment]
            ELSE NoMatch
        \* \s* (?P<value> (0x[a-fA-F0-9]+) | ([0-9]+))?  ending at position i
        Value(i) ==
            IF IsHex(Tok(s, i)) \/ IsDec(Tok(s, i))
            THEN [value |-> <<s[i]>>, pos |-> i + 1]
            ELSE [value |-> <<>>, pos |-> i]
        C(p, q, v) == M(p, q, v, Trailer(s, v.pos))
        B(p, q) == C(p, q, Value(SkipWS(s, q.pos)))
        \* fadfa.py only: (/ (?P<predicate> [A-Z]+) )?
        A(p) == B(p, IF impl_ = "fadfa" THEN Pred(s, p.pos + 1)
                                       ELSE [predicate |-> <<>>, pos |-> p.pos + 1])
    IN  A(Prefix(s))

\* pattern.fullmatch(line) for the pattern of the given kind
Match(impl_, kind, s) ==
    CASE kind = "FULL" -> MatchFULL(impl_, s)
      [] kind = "DATA" -> MatchDATA(impl_, s)
      [] kind = "COMMENT" -> MatchCOMMENT(impl_, s)
      [] kind = "MEMOP" -> MatchMEMOP(impl_, s)
      [] kind = "JUMP" -> MatchJUMP(impl_, s)

PATTERNS_m == <<"FULL", "DATA", "COMMENT", "MEMOP">>
PATTERNS == <<"FULL", "DATA", "COMMENT", "MEMOP", "JUMP">>

SyntaxError == [kind |-> "SyntaxError"]

\* for pattern, kind in PATTERNS: ... return fields; raise SyntaxError
RECURSIVE TryPatterns(_, _, _)
TryPatterns(impl_, s, k) ==
    IF k > Len(PATTERNS)
    THEN SyntaxError
    ELSE LET Found(m) == IF m.kind # "NOMATCH" THEN m
                                                    ELSE TryPatterns(impl_, s, k + 1)
         IN  Found(Match(impl_, PATTERNS[k], s))

parse_line(impl_, s) == TryPatterns(impl_, s, 1)

(***************************************************************************)
(* Rendering of the rewritten lines.                                       *)
(***************************************************************************)
\* n blanks
RECURSIVE Sp(_)
Sp(n) == IF n = 0 THEN <<>> ELSE <<" ">> \o Sp(n - 1)

\* a captured group inside an f-string: str(None) is "None"
Fmt(group) == IF group = <<>> THEN <<"None">> ELSE group

\* Fill in the optional fields label, predicate and comment, adding the
\* punctuation they require.
fix_optional_fields(fields) ==
    [fields EXCEPT
        !.label = IF @ = <<>> THEN Sp(4) ELSE @ \o <<":">>,
        !.predicate = IF @ = <<>> THEN <<>> ELSE <<"/">> \o @,
        !.comment = @]

\* labels[ref] - address: relative to the line being rewritten
pc_relative_m(labels_, ref, address_) == labels_[ref] - (address_ + 1)
pc_relative(labels_, ref, address_) == labels_[ref] - address_

\* the rewritten MEMOP or JUMP line; f has its optional fields fixed
Resolved(f, opcode, target, disp) ==
    f.label \o Sp(3) \o opcode \o f.predicate \o Sp(1)
      \o Sp(1) \o target \o <<",", "r0", ",", "r15", "[">> \o IntStr(disp)
      \o <<"]", " ", "#">> \o Fmt(f.labelref) \o Sp(1)
      \o Sp(1) \o f.comment

\* fadfa.py re-renders a FULL line
RenderFULL(f) ==
    f.label \o Sp(3) \o Fmt(f.opcode) \o f.predicate \o Sp(1)
      \o Sp(1) \o Fmt(f.target) \o <<",">> \o Fmt(f.src1) \o <<",">> \o Fmt(f.src2)
      \o (IF f.offset = <<>> THEN <<>> ELSE <<"[">> \o f.offset \o <<"]">>) \o Sp(1)
      \o Sp(1) \o f.comment

\* fadfa.py re-renders a DATA line
RenderDATA(f) ==
    f.label \o Sp(3) \o Fmt(f.opcode) \o Sp(1)
      \o Sp(1) \o Fmt(f.value) \o Sp(1)
      \o Sp(1) \o f.comment

\* the opcode of a rewritten JUMP
ADD_m == <<"JUMP">>
ADD == <<"ADD">>

\* all fields use memory except COMMENT
Uses_m(kind) == 1
Uses(kind) == IF kind # "COMMENT" THEN 1 ELSE 0

\* an exception leaves the try block before address += 1 is reached
Skipped_m(kind) == Uses(kind)
Skipped(kind) == 0

\* error_count > ERROR_LIMIT
TooMany_late(count) == count > ERROR_LIMIT + 1
TooMany_ge(count) == count >= ERROR_LIMIT
TooMany(count) == count > ERROR_LIMIT

(***************************************************************************)
(* The body of transform's line loop up to the exception handlers: what    *)
(* one line does given the symbol table and the address counter.           *)
(*   error: "none", "SyntaxError" or "KeyError"                            *)
(*   emit:  the lines appended to transformed (none or one)                *)
(*   step:  what is added to the address counter                           *)
(***************************************************************************)
rewrite(impl_, labels_, address_, raw) ==
    LET R(line, parsed, fields) ==
            CASE parsed.kind = "SyntaxError" ->
                   [kind |-> parsed.kind, error |-> "SyntaxError", emit |-> <<>>,
                    step |-> Skipped(parsed.kind)]
              [] parsed.kind = "FULL" ->
                   [kind |-> parsed.kind, error |-> "none",
                    emit |-> IF impl_ = "fadfa"
                             THEN <<RenderFULL(fix_optional_fields(fields))>>
                             ELSE <<line>>,
                    step |-> Uses(parsed.kind)]
              [] parsed.kind = "DATA" ->
                   [kind |-> parsed.kind, error |-> "none",
                    emit |-> IF impl_ = "fadfa"
                             THEN <<RenderDATA(fix_optional_fields(fields))>>
                             ELSE <<line>>,
                    step |-> Uses(parsed.kind)]
              [] parsed.kind = "MEMOP" ->
                   IF fields.labelref[1] \notin DOMAIN labels_
                   THEN [kind |-> parsed.kind, error |-> "KeyError", emit |-> <<>>,
                         step |-> Skipped(parsed.kind)]
                   ELSE [kind |-> parsed.kind, error |-> "none",
                         emit |-> <<Resolved(fix_optional_fields(fields),
                                      fields.opcode, fields.target,
                                      pc_relative(labels_, fields.labelref[1],
                                                  address_))>>,
                         step |-> Uses(parsed.kind)]
              [] parsed.kind = "JUMP" ->
                   IF fields.labelref[1] \notin DOMAIN labels_
                   THEN [kind |-> parsed.kind, error |-> "KeyError", emit |-> <<>>,
                         step |-> Skipped(parsed.kind)]
                   ELSE [kind |-> parsed.kind, error |-> "none",
                         emit |-> <<Resolved(fix_optional_fields(fields),
                                      ADD, <<"r15">>,
                                      pc_relative(labels_, fields.labelref[1],
                                                  address_))>>,
                         step |-> Uses(parsed.kind)]
              [] parsed.kind = "COMMENT" ->
                   [kind |-> parsed.kind, error |-> "none", emit |-> <<line>>,
                    step |-> Uses(parsed.kind)]
        \* fadfa.py: fields['opcode'] = fields['opcode'].upper()
        U(line, parsed) ==
            R(line, parsed,
              IF impl_ = "fadfa" /\ parsed.kind \notin {"COMMENT", "SyntaxError"}
              THEN [parsed EXCEPT !.opcode = <<Upper(@[1])>>]
              ELSE parsed)
        P(line) == U(line, parse_line(impl_, line))
    IN  P(rstrip(raw))

\* the diagnostic printed by the exception handler
Diagnostic(error, n) ==
    [msg |-> IF error = "SyntaxError" THEN "Syntax error in line"
             ELSE IF error = "KeyError" THEN "Unknown word in line"
             ELSE "Exception encountered in line",
     lnum |-> n]

Abandon == [msg |-> "Too many errors; abandoning", lnum |-> -1]

(***************************************************************************)
(* Input files.                                                            *)
(***************************************************************************)
\* again:  STORE r1,x
LnStore == <<"again", ":", " ", " ", "STORE", " ", "r1", ",", "x", "\n">>
\*   SUB r1,r0,r0[1]
LnSub == <<" ", " ", "SUB", " ", "r1", ",", "r0", ",", "r0", "[", "1", "]", "\n">>
\* JUMP/P again
LnJump == <<"JUMP", "/", "P", " ", "again", "\n">>
\* HALT r0,r0,r0
LnHalt == <<"HALT", " ", "r0", ",", "r0", ",", "r0", "\n">>
\* x: DATA 0
LnData == <<"x", ":", " ", "DATA", " ", "0", "\n">>
\* DATA            (no value, trailing blanks)
LnDataNoValue == <<"DATA", " ", " ", "\n">>
\* x: #c           (a label on a line of its own, with a comment)
LnLabelOnly == <<"x", ":", " ", "#", "c", "\n">>
\* the empty line
LnBlank == <<"\n">>
\* JUMP r1,x       (the opcode JUMP with a target register)
LnJumpReg == <<"JUMP", " ", "r1", ",", "x", "\n">>
\* LOAD r1,y       (y is defined nowhere)
LnUndefined == <<"LOAD", " ", "r1", ",", "y", "\n">>
\* ?
LnJunk == <<"?", "\n">>
\* jump x
LnLower == <<"jump", " ", "x", "\n">>
\* x: JUMP x ;c    (a jump to itself)
LnSelf == <<"x", ":", " ", "JUMP", " ", "x", " ", ";", "c", "\n">>
\* again: JUMP r1,r0,r15[-2] #c   (fully specified, opcode JUMP)
LnJumpFull == <<"again", ":", " ", "JUMP", " ", "r1", ",", "r0", ",", "r15",
                "[", "-", "2", "]", " ", "#", "c", "\n">>
\* again: STORE/P r1,x #c   (label, predicate and comment)
LnStoreFull == <<"again", ":", " ", "STORE", "/", "P", " ", "r1", ",", "x", " ",
                 "#", "c", "\n">>
\* load r1,x      (the opcode in lower case)
LnLoadLower == <<"load", " ", "r1", ",", "x", "\n">>
\* again: ?       (a label before what matches no grammar)
LnLabelJunk == <<"again", ":", " ", "?", "\n">>

LineSet == {LnStore, LnSub, LnJump, LnData, LnDataNoValue, LnLabelOnly,
            LnJumpReg, LnUndefined, LnJunk, LnSelf}

\* the example of transform's docstring
Example == <<LnStore, LnSub, LnJump, LnHalt, LnData>>

\* files with the lines that are not in LineSet
Others == {<<LnBlank, LnStore, LnBlank, LnData>>,
           <<LnLower, LnData, LnBlank>>,
           <<LnJumpFull, LnJump>>,
           <<LnStoreFull, LnLoadLower, LnUndefined, LnData>>,
           <<LnLabelJunk, LnSub, LnJump>>}

Inputs == UNION {[1..n -> LineSet] : n \in 0..MaxLines} \cup {Example} \cup Others

ErrLineSet == {LnSub, LnUndefined, LnJunk}

ErrInputs == UNION {[1..n -> ErrLineSet] : n \in 0..MaxErrLines}

(***************************************************************************)
(* The program state.                                                      *)
(***************************************************************************)
VARIABLES
    impl,          \* which of the two files runs
    lines,         \* args.sourcefile.readlines()
    pc,            \* "resolve", "transform", "main" or "exited"
    labels,        \* resolve: the table from labels to addresses
    r_address,     \* resolve: its address counter
    r_lnum,        \* resolve: lines done
    address,       \* transform: its address counter
    lnum,          \* transform: lines done
    error_count,   \* transform: errors so far
    transformed,   \* transform: the rewritten lines
    objfile,       \* what main has printed to args.objfile
    stdout,        \* what has been printed to sys.stdout, args.objfile apart
    stderr,        \* what has been printed to sys.stderr
    exit_status,   \* -1 while the process runs, then its exit status
    r_trace,       \* history: resolve's address counter and kind, line by line
    t_trace        \* history: transform's address counter and outcome, line by line

vars == <<impl, lines, pc, labels, r_address, r_lnum, address, lnum, error_count,
          transformed, objfile, stdout, stderr, exit_status, r_trace, t_trace>>

InitOn(inputs) ==
    /\ impl \in Impls
    /\ lines \in inputs
    /\ pc = "resolve"
    /\ labels = <<>>
    /\ r_address = 0
    /\ r_lnum = 0
    /\ address = 0
    /\ lnum = 0
    /\ error_count = 0
    /\ transformed = <<>>
    /\ objfile = <<>>
    /\ stdout = <<>>
    /\ stderr = <<>>
    /\ exit_status = -1
    /\ r_trace = <<>>
    /\ t_trace = <<>>

Init == InitOn(Inputs)

InitErr == InitOn(ErrInputs)

\* labels[group] = address
Bound_m(labels_, group, address_) == labels_ @@ (group :> address_)
Bound(labels_, group, address_) == (group :> address_) @@ labels_

\* what one line does to resolve's table and counter
bind_m(impl_, labels_, address_, raw) ==
    LET B(fields) ==
            [kind |-> fields.kind,
             labels |-> IF fields.kind # "SyntaxError" /\ fields.label # <<>>
                        THEN Bound(labels_, fields.label[1], address_)
                        ELSE labels_,
             address |-> address_ + Uses(fields.kind)]
    IN  B(parse_line(impl_, rstrip(raw)))
bind(impl_, labels_, address_, raw) ==
    LET B(fields) ==
            IF fields.kind = "SyntaxError"
            THEN [kind |-> fields.kind, labels |-> labels_, address |-> address_]
            ELSE [kind |-> fields.kind,
                  labels |-> IF fields.label # <<>>
                             THEN Bound(labels_, fields.label[1], address_)
                             ELSE labels_,
                  address |-> address_ + Uses(fields.kind)]
    IN  B(parse_line(impl_, rstrip(raw)))

\* resolve: one turn of the loop
ResolveLine ==
    /\ pc = "resolve"
    /\ r_lnum < Len(lines)
    /\ LET Do(b) ==
               /\ labels' = b.labels
               /\ r_address' = b.address
               /\ r_trace' = Append(r_trace, [address |-> r_address, kind |-> b.kind])
       IN  Do(bind(impl, labels, r_address, lines[r_lnum + 1]))
    /\ r_lnum' = r_lnum + 1
    /\ UNCHANGED <<impl, lines, pc, address, lnum, error_count, transformed,
                   objfile, stdout, stderr, exit_status, t_trace>>

\* resolve: return labels
ResolveReturn ==
    /\ pc = "resolve"
    /\ r_lnum = Len(lines)
    /\ pc' = "transform"
    /\ UNCHANGED <<impl, lines, labels, r_address, r_lnum, address, lnum,
                   error_count, transformed, objfile, stdout, stderr, exit_status,
                   r_trace, t_trace>>

\* transform: one turn of the loop, the exception handlers and the check of
\* the error limit included
TransformLine ==
    /\ pc = "transform"
    /\ lnum < Len(lines)
    /\ LET Do(r, count, said) ==
               /\ transformed' = transformed \o r.emit
               /\ address' = address + r.step
               /\ error_count' = count
               /\ IF impl = "fadfa"
                  THEN stdout' = stdout \o said /\ stderr' = stderr
                  ELSE stderr' = stderr \o said /\ stdout' = stdout
               /\ t_trace' = Append(t_trace,
                      [address |-> address, kind |-> r.kind, error |-> r.error,
                       out |-> IF r.error # "none" THEN 0 ELSE Len(transformed) + 1])
               /\ IF TooMany(count)
                  THEN pc' = "exited" /\ exit_status' = 1
                  ELSE pc' = pc /\ exit_status' = exit_status
           Count(r, count) ==
               Do(r, count,
                  (IF r.error # "none" THEN <<Diagnostic(r.error, lnum)>> ELSE <<>>)
                    \o (IF TooMany(count) THEN <<Abandon>> ELSE <<>>))
           Handle(r) == Count(r, error_count + (IF r.error # "none" THEN 1 ELSE 0))
       IN  Handle(rewrite(impl, labels, address, lines[lnum + 1]))
    /\ lnum' = lnum + 1
    /\ UNCHANGED <<impl, lines, labels, r_address, r_lnum, objfile, r_trace>>

\* transform: return transformed
TransformReturn ==
    /\ pc = "transform"
    /\ lnum = Len(lines)
    /\ pc' = "main"
    /\ UNCHANGED <<impl, lines, labels, r_address, r_lnum, address, lnum,
                   error_count, transformed, objfile, stdout, stderr, exit_status,
                   r_trace, t_trace>>

\* main: transform(lines) has returned its list; the loop that prints runs
Returned_m == pc \in {"transform", "main"}
Returned == pc = "main"

\* main: print one transformed line to args.objfile
MainPrint ==
    /\ Returned
    /\ Len(objfile) < Len(transformed)
    /\ objfile' = Append(objfile, transformed[Len(objfile) + 1])
    /\ UNCHANGED <<impl, lines, pc, labels, r_address, r_lnum, address, lnum,
                   error_count, transformed, stdout, stderr, exit_status,
                   r_trace, t_trace>>

\* main returns: the process ends with status 0
MainReturn ==
    /\ pc = "main"
    /\ Len(objfile) = Len(transformed)
    /\ pc' = "exited"
    /\ exit_status' = 0
    /\ UNCHANGED <<impl, lines, labels, r_address, r_lnum, address, lnum,
                   error_count, transformed, objfile, stdout, stderr,
                   r_trace, t_trace>>

Next ==
    \/ ResolveLine
    \/ ResolveReturn
    \/ TransformLine
    \/ TransformReturn
    \/ MainPrint
    \/ MainReturn

Spec == Init /\ [][Next]_vars

SpecErr == InitErr /\ [][Next]_vars

(***************************************************************************)
(* Reading the histories.                                                  *)
(***************************************************************************)
Kinds == {"FULL", "DATA", "COMMENT", "MEMOP", "JUMP"}

\* the kinds of the lines that bear an instruction or a data word
Instrs == Kinds \ {"COMMENT"}

\* the fields of input line i
Fields(i) == parse_line(impl, rstrip(lines[i]))

\* the label that input line i defines, if it is classified and has one
LabelOf(i) ==
    LET L(f) == IF f.kind = "SyntaxError" THEN <<>> ELSE f.label
    IN  L(Fields(i))

\* the lines, among those the symbol-table pass has done, that define lab
Defs(lab) ==
    LET D(pairs) == {i \in 1..Len(r_trace) : <<i, <<lab>>>> \in pairs}
    IN  D({<<i, LabelOf(i)>> : i \in 1..Len(r_trace)})

Max(S) == CHOOSE x \in S : \A y \in S : y <= x

\* resolve's address counter just after line i
After(i) == IF i < Len(r_trace) THEN r_trace[i + 1].address ELSE r_address

\* the lines before line i that bear an instruction
InstrsBefore(i) == {m \in 1..(i - 1) : r_trace[m].kind \in Instrs}

\* input line i refers to a label
Refers(i) == Fields(i).kind \in {"MEMOP", "JUMP"}
RefOf(i) == Fields(i).labelref[1]

\* a line that is a fault of the rewrite pass: it matches no grammar, or it
\* refers to a label that the symbol table does not hold
LineFails(raw) ==
    LET F(f) == \/ f.kind = "SyntaxError"
                \/ f.kind \in {"MEMOP", "JUMP"} /\ f.labelref[1] \notin DOMAIN labels
    IN  F(parse_line(impl, rstrip(raw)))

\* the input lines that are faults of the rewrite pass
Failing ==
    LET At(bad) == {i \in 1..Len(lines) : lines[i] \in bad}
    IN  At(UNION {IF LineFails(l) THEN {l} ELSE {} :
                     l \in {lines[i] : i \in 1..Len(lines)}})

\* the number a decimal numeral denotes, and the integer of an offset
Num(w) == (CHOOSE k \in 1..Len(DecWords) : DecWords[k] = w) - 1
IntOf(off) == IF off[1] = "-" THEN 0 - Num(off[2]) ELSE Num(off[1])

\* the line emitted for input line i
Emitted(i) == transformed[t_trace[i].out]

\* the line emitted for input line i is a fully specified instruction whose
\* displacement is d
HasDisp(i, d) ==
    LET Is(o) == o.kind = "FULL" /\ o.offset # <<>> /\ IntOf(o.offset) = d
    IN  Is(MatchFULL(impl, Emitted(i)))

(***************************************************************************)
(* The claims.                                                             *)
(***************************************************************************)

\* C1: every MEMOP or JUMP line whose labelref is in the symbol table is
\* rewritten with the displacement symbolAddress(labelref) minus the address
\* that the symbol-table pass assigned to the referencing line itself.
C1_Displacement ==
    \A i \in 1..Len(t_trace) :
        (Refers(i) /\ RefOf(i) \in DOMAIN labels) =>
            /\ t_trace[i].out # 0
            /\ HasDisp(i, labels[RefOf(i)] - r_trace[i].address)

\* C2: just before any line that the rewrite pass reaches, its address
\* counter equals the address counter that the symbol-table pass had just
\* before the same line.
C2_SameAddress ==
    /\ \A i \in 1..Len(t_trace) : t_trace[i].address = r_trace[i].address
    /\ (pc = "transform" /\ lnum < Len(lines)) => address = r_trace[lnum + 1].address

\* C3: the rewrite pass aborts exactly when the error counter first exceeds
\* ERROR_LIMIT, right after the sixth failing line: the process has then
\* ended with a non-zero status and no later line is classified or rewritten.
C3_AbortAtSixth ==
    LET Holds(failing) ==
            /\ (error_count > ERROR_LIMIT) <=> (exit_status > 0)
            /\ (error_count > ERROR_LIMIT) =>
                  /\ pc = "exited"
                  /\ lnum \in failing
                  /\ Cardinality(failing \cap 1..lnum) = ERROR_LIMIT + 1
                  /\ Len(t_trace) = lnum
                  /\ Len(transformed) = lnum - (ERROR_LIMIT + 1)
                  /\ ~ENABLED Next
            /\ (pc = "transform") => Cardinality(failing \cap 1..lnum) <= ERROR_LIMIT
    IN  (pc # "resolve") => Holds(Failing)

\* C3, witness: the run was aborted at the sixth failing line with a line
\* of the file still unread.
C3_Witness ==
    /\ error_count > ERROR_LIMIT
    /\ exit_status = 1
    /\ lnum < Len(lines)
    /\ Cardinality(Failing \cap 1..lnum) = ERROR_LIMIT + 1

\* C4: with at most ERROR_LIMIT failing lines, each failing line adds one to
\* the error counter and emits nothing, every other line emits one line, in
\* the order of the input, and the run goes on to end with status 0.
C4_ToleratedErrors ==
    LET Holds(failing) ==
            /\ \A i \in 1..Len(t_trace) :
                  /\ (i \in failing) <=> (t_trace[i].out = 0)
                  /\ (i \notin failing) =>
                        t_trace[i].out = i - Cardinality(failing \cap 1..i)
            /\ error_count = Cardinality(failing \cap 1..lnum)
            /\ Len(transformed) = lnum - error_count
            /\ (Cardinality(failing) <= ERROR_LIMIT) =>
                  /\ exit_status \in {-1, 0}
                  /\ (pc = "exited") =>
                        /\ exit_status = 0
                        /\ lnum = Len(lines)
                        /\ Len(transformed) = Len(lines) - Cardinality(failing)
                        /\ objfile = transformed
    IN  (pc # "resolve") => Holds(Failing)

\* C4, witness: a run with exactly ERROR_LIMIT failing lines, of both kinds,
\* has ended with status 0 and has emitted the other lines.
C4_Witness ==
    /\ pc = "exited"
    /\ exit_status = 0
    /\ error_count = ERROR_LIMIT
    /\ Len(objfile) >= 2
    /\ \E i, j \in 1..Len(t_trace) :
          t_trace[i].error = "SyntaxError" /\ t_trace[j].error = "KeyError"

\* C5: in the symbol-table pass a COMMENT line never advances the address
\* counter, and a label on such a line is bound to the address of the next
\* line that bears an instruction, or to the end-of-file address (the number
\* of instruction-bearing lines) if none follows.
C5_CommentLabel ==
    \A i \in 1..Len(r_trace) :
        (r_trace[i].kind = "COMMENT") =>
            /\ After(i) = r_trace[i].address
            /\ \A j \in (i + 1)..Len(r_trace) :
                  (/\ r_trace[j].kind \in Instrs
                   /\ \A m \in (i + 1)..(j - 1) : r_trace[m].kind \notin Instrs) =>
                      /\ r_trace[j].address = r_trace[i].address
                      /\ r_trace[j].address = Cardinality(InstrsBefore(j))
            /\ (/\ pc # "resolve"
                /\ \A j \in (i + 1)..Len(r_trace) : r_trace[j].kind \notin Instrs) =>
                      /\ r_trace[i].address = r_address
                      /\ r_address = Cardinality(InstrsBefore(Len(lines) + 1))
            /\ (LabelOf(i) # <<>> /\ i = Max(Defs(LabelOf(i)[1]))) =>
                  /\ LabelOf(i)[1] \in DOMAIN labels
                  /\ labels[LabelOf(i)[1]] = r_trace[i].address

\* C5, witness: a label on a COMMENT line, after one instruction, holds the
\* address of the instruction that follows it.
C5_Witness ==
    /\ pc = "exited"
    /\ \E i \in 1..Len(r_trace) : \E j \in (i + 1)..Len(r_trace) :
          /\ r_trace[i].kind = "COMMENT"
          /\ LabelOf(i) # <<>>
          /\ i = Max(Defs(LabelOf(i)[1]))
          /\ r_trace[j].kind \in Instrs
          /\ r_trace[j].address = 1
          /\ labels[LabelOf(i)[1]] = 1

\* C6: every non-comment line takes one address slot, the k-th such line has
\* address k counting from 0, a label on such a line holds the line's own
\* address, and a MEMOP or JUMP that refers to its own label is rewritten
\* with displacement 0.  (The label is taken to be the line's own when no
\* later line defines it again.)
C6_SlotsAndSelfReference ==
    /\ \A i \in 1..Len(r_trace) :
          (r_trace[i].kind \in Instrs) =>
              /\ r_trace[i].address = Cardinality(InstrsBefore(i))
              /\ After(i) = r_trace[i].address + 1
              /\ (LabelOf(i) # <<>> /\ i = Max(Defs(LabelOf(i)[1]))) =>
                    labels[LabelOf(i)[1]] = r_trace[i].address
    /\ \A i \in 1..Len(t_trace) :
          (/\ Refers(i)
           /\ LabelOf(i) = <<RefOf(i)>>
           /\ i = Max(Defs(RefOf(i)))) =>
              /\ t_trace[i].out # 0
              /\ HasDisp(i, 0)

\* the line emitted for a line with fields f, read back as o: a JUMP has
\* become ADD r15,r0,r15[labels[labelref] - at], label and predicate kept
JumpAsAdd(f, o, at) ==
    (f.kind = "JUMP") =>
        /\ o.kind = "FULL"
        /\ o.opcode = <<"ADD">>
        /\ o.target = <<"r15">>
        /\ o.src1 = <<"r0">>
        /\ o.src2 = <<"r15">>
        /\ o.offset # <<>>
        /\ IntOf(o.offset) = labels[f.labelref[1]] - at
        /\ o.predicate = f.predicate
        /\ o.label = f.label

\* C7 as claimed: no emitted line has the opcode JUMP, and every line
\* classified JUMP is emitted as ADD r15,r0,r15[displacement] with its
\* predicate.
C7_NoJumpOpcode ==
    \A i \in 1..Len(t_trace) :
        LET Is(f, o) ==
                /\ (o.kind \in Instrs) => o.opcode # <<"JUMP">>
                /\ JumpAsAdd(f, o, t_trace[i].address)
        IN  (t_trace[i].out # 0) => Is(Fields(i), parse_line(impl, Emitted(i)))

\* C7, amended: every line classified JUMP whose labelref is in the symbol
\* table is emitted as an ADD with target r15, src1 r0, src2 r15, the
\* displacement labels[labelref] minus the rewrite pass's address counter,
\* and the label and predicate of the input line; an emitted line has the
\* opcode JUMP only if its input line is classified FULL or MEMOP and has
\* that opcode itself.
C7_JumpBecomesAdd ==
    \A i \in 1..Len(t_trace) :
        LET Is(f, o) ==
                /\ JumpAsAdd(f, o, t_trace[i].address)
                /\ (o.kind \in Instrs /\ o.opcode = <<"JUMP">>) =>
                      /\ f.kind \in {"FULL", "MEMOP"}
                      /\ Upper(f.opcode[1]) = "JUMP"
        IN  /\ (t_trace[i].kind = "JUMP") <=> (Fields(i).kind = "JUMP")
            /\ (t_trace[i].kind = "JUMP") =>
                  (t_trace[i].out # 0 <=> RefOf(i) \in DOMAIN labels)
            /\ (t_trace[i].out # 0) => Is(Fields(i), parse_line(impl, Emitted(i)))

\* C7, witness: a JUMP with a predicate and a backward reference has been
\* rewritten.
C7_Witness ==
    \E i \in 1..Len(t_trace) :
        /\ t_trace[i].kind = "JUMP"
        /\ t_trace[i].out # 0
        /\ Fields(i).predicate = <<"P">>
        /\ HasDisp(i, 0 - 1)

\* a field-by-field copy: o is the emitted line read back, f the input line
Copy(f, o) ==
    /\ o.kind = f.kind
    /\ o.label = f.label
    /\ Upper(o.opcode[1]) = Upper(f.opcode[1])
    /\ o.comment = f.comment
    /\ (f.kind = "FULL") =>
          /\ o.predicate = f.predicate
          /\ o.target = f.target
          /\ o.src1 = f.src1
          /\ o.src2 = f.src2
          /\ o.offset = f.offset \/ (f.offset = <<>> /\ o.offset = <<"0">>)
    /\ (f.kind = "DATA") =>
          o.value = f.value \/ (f.value = <<>> /\ o.value = <<"0">>)

\* C8: a file of FULL and DATA lines only is written out line for line, each
\* output line a copy of its input line up to blanks: same label, opcode,
\* predicate, operands, offset, data value and comment, an absent value or
\* offset staying absent or becoming its default.
C8_PassThrough ==
    (/\ pc = "exited"
     /\ exit_status = 0
     /\ \A i \in 1..Len(lines) : t_trace[i].kind \in {"FULL", "DATA"}) =>
        /\ Len(objfile) = Len(lines)
        /\ \A i \in 1..Len(lines) :
              Copy(Fields(i), parse_line(impl, objfile[i]))

\* C9: when a label is defined on more than one classified line, the symbol
\* table holds the address of the last definition, and every MEMOP or JUMP
\* that refers to the label, before or after that definition, is rewritten
\* against that address without an error.
C9_LastDefinitionWins ==
    (pc # "resolve") =>
        \A lab \in {"again", "x", "y"} :
            LET Last(D) ==
                    (Cardinality(D) >= 2) =>
                        /\ lab \in DOMAIN labels
                        /\ labels[lab] = r_trace[Max(D)].address
                        /\ \A i \in 1..Len(t_trace) :
                              (Refers(i) /\ RefOf(i) = lab) =>
                                  /\ t_trace[i].error = "none"
                                  /\ t_trace[i].out # 0
                                  /\ HasDisp(i, r_trace[Max(D)].address
                                                   - t_trace[i].address)
            IN  Last(Defs(lab))

\* C9, witness: a reference that stands on the first definition of its
\* label, which a later line defines again at another address, has been
\* rewritten.
C9_Witness ==
    /\ pc = "exited"
    /\ \E i \in 1..Len(t_trace) :
          /\ Refers(i)
          /\ t_trace[i].out # 0
          /\ i \in Defs(RefOf(i))
          /\ Max(Defs(RefOf(i))) > i
          /\ labels[RefOf(i)] # r_trace[i].address

\* the place of a grammar in the order FULL, DATA, COMMENT, MEMOP, JUMP
Rank(kind) ==
    CASE kind = "FULL" -> 1
      [] kind = "DATA" -> 2
      [] kind = "COMMENT" -> 3
      [] kind = "MEMOP" -> 4
      [] kind = "JUMP" -> 5

\* kind is the classification of line s: the first grammar in the order
\* that matches s, or SyntaxError if none does
Classified(kind, s) ==
    LET Is(matching) ==
            IF matching = {}
            THEN kind = "SyntaxError"
            ELSE /\ kind \in matching
                 /\ \A k \in matching : Rank(kind) <= Rank(k)
                 /\ ("FULL" \in matching) => kind # "MEMOP"
    IN  Is({k \in Kinds : Match(impl, k, s).kind = k})

\* C10: classify returns the kind of the first grammar, in the order FULL,
\* DATA, COMMENT, MEMOP, JUMP, that fully matches the line (so a line that
\* matches FULL is never MEMOP), and raises SyntaxError when none matches;
\* stated of the line that each pass has just classified.
C10_FirstMatchWins ==
    /\ (r_lnum >= 1) => Classified(r_trace[r_lnum].kind, rstrip(lines[r_lnum]))
    /\ (lnum >= 1) =>
          /\ Classified(t_trace[lnum].kind, rstrip(lines[lnum]))
          /\ (t_trace[lnum].kind = "SyntaxError") <=>
                (t_trace[lnum].error = "SyntaxError")

\* C10, witness: the rewrite pass has classified a FULL line, then a MEMOP
\* line, then a line that matches no grammar.
C10_Witness ==
    /\ lnum = 3
    /\ t_trace[1].kind = "FULL"
    /\ t_trace[2].kind = "MEMOP"
    /\ t_trace[3].kind = "SyntaxError"

\* C11: nothing is written to the output destination before the rewrite pass
\* has gone over every input line, so a run that the error limit aborts has
\* written no rewritten line at all, however many it had rewritten.
C11_NoPartialOutput ==
    /\ (exit_status = 1) => objfile = <<>>
    /\ (pc \in {"resolve", "transform"}) => objfile = <<>>
    /\ (objfile # <<>>) =>
          /\ lnum = Len(lines)
          /\ error_count <= ERROR_LIMIT
          /\ Len(objfile) <= Len(transformed)
          /\ objfile = SubSeq(transformed, 1, Len(objfile))

\* C11, witness: a run was aborted after it had rewritten a line, and the
\* output destination is empty.
C11_Witness ==
    /\ pc = "exited"
    /\ exit_status = 1
    /\ Len(transformed) > 0
    /\ objfile = <<>>

\* C12: every diagnostic of a line and the message of the abort are written
\* to the error stream, one for each counted error in the order of the lines,
\* and nothing but rewritten lines is written to the standard output.
C12_ErrorStream ==
    /\ stdout = <<>>
    /\ Len(stderr) = error_count + (IF exit_status = 1 THEN 1 ELSE 0)
    /\ \A k \in 1..Len(stderr) :
          IF k <= error_count
          THEN /\ stderr[k].lnum \in 0..(lnum - 1)
               /\ t_trace[stderr[k].lnum + 1].error # "none"
               /\ stderr[k] = Diagnostic(t_trace[stderr[k].lnum + 1].error,
                                         stderr[k].lnum)
          ELSE stderr[k] = Abandon

\* the line emitted for a MEMOP line with fields f, read back as o: a fully
\* specified instruction with the label, opcode (up to case), predicate and
\* target of f, src1 r0, src2 r15, the displacement disp in brackets, and the
\* comment '#labelref' followed by the comment of f
MemopAsFull(f, o, disp) ==
    /\ o.kind = "FULL"
    /\ o.label = f.label
    /\ Upper(o.opcode[1]) = Upper(f.opcode[1])
    /\ o.predicate = f.predicate
    /\ o.target = f.target
    /\ o.src1 = <<"r0">>
    /\ o.src2 = <<"r15">>
    /\ o.offset = IntStr(disp)
    /\ o.comment = <<"#">> \o f.labelref \o <<" ", " ">> \o f.comment

\* the diagnostics printed so far, on either stream
Said == {stderr[k] : k \in 1..Len(stderr)} \cup {stdout[k] : k \in 1..Len(stdout)}

\* C13: every line classified MEMOP whose labelref is in the symbol table is
\* emitted as a fully specified instruction with the same label, opcode,
\* predicate and target, src1 r0, src2 r15 with the displacement the pass
\* computed (labels[labelref] minus its address counter) in brackets, then
\* '#labelref' and the original comment; a MEMOP or JUMP whose labelref is
\* not in the symbol table is counted and reported as an unknown word and
\* emits nothing.
C13_MemopAsFull ==
    \A i \in 1..Len(t_trace) :
        LET Is(f) ==
                /\ (f.kind = "MEMOP") <=> (t_trace[i].kind = "MEMOP")
                /\ (f.kind = "MEMOP" /\ f.labelref[1] \in DOMAIN labels) =>
                      /\ t_trace[i].error = "none"
                      /\ t_trace[i].out # 0
                      /\ MemopAsFull(f, MatchFULL(impl, Emitted(i)),
                                     labels[f.labelref[1]] - t_trace[i].address)
                /\ (f.kind \in {"MEMOP", "JUMP"} /\ f.labelref[1] \notin DOMAIN labels) =>
                      /\ t_trace[i].error = "KeyError"
                      /\ t_trace[i].out = 0
                      /\ Diagnostic("KeyError", i - 1) \in Said
                      /\ Diagnostic("KeyError", i - 1).msg = "Unknown word in line"
                      /\ error_count >= 1
                      /\ Len(transformed) < Len(t_trace)
        IN  Is(Fields(i))

\* C13, witness: a MEMOP with a label, a predicate and a comment, one with
\* its opcode in lower case, and one whose labelref is unknown have been
\* done in one run.
C13_Witness ==
    /\ pc = "exited"
    /\ \E i, j, k \in 1..Len(t_trace) :
          /\ t_trace[i].kind = "MEMOP" /\ t_trace[i].out # 0
          /\ Fields(i).label # <<>>
          /\ Fields(i).predicate # <<>>
          /\ Fields(i).comment # <<>>
          /\ t_trace[j].kind = "MEMOP" /\ t_trace[j].out # 0
          /\ Fields(j).opcode = <<"load">>
          /\ t_trace[k].kind = "MEMOP" /\ t_trace[k].error = "KeyError"

\* no grammar matches line s
NoGrammar(s) == \A k \in Kinds : Match(impl, k, s).kind # k

\* C14: the symbol-table pass never ends the run: each of its steps goes on
\* to the next line, or returns the table after the last one, and a line
\* that matches no grammar leaves the symbol table and the address counter
\* as they were.
C14_ResolveSwallows ==
    [][(pc = "resolve") =>
          /\ exit_status' = -1
          /\ pc' \in {"resolve", "transform"}
          /\ (r_lnum < Len(lines)) => (r_lnum' = r_lnum + 1 /\ pc' = "resolve")
          /\ (r_lnum = Len(lines)) => (pc' = "transform" /\ labels' = labels)
          /\ (r_lnum < Len(lines) /\ NoGrammar(rstrip(lines[r_lnum + 1]))) =>
                (labels' = labels /\ r_address' = r_address)]_vars

\* C14, witness: the pass has gone over a labelled line that matches no
\* grammar and two instructions after it: the label is not in the table and
\* the line took no address.
C14_Witness ==
    /\ pc = "transform"
    /\ Len(lines) = 3
    /\ NoGrammar(rstrip(lines[1]))
    /\ Prefix(rstrip(lines[1])).label = <<"again">>
    /\ "again" \notin DOMAIN labels
    /\ r_trace[2].address = 0
    /\ r_address = 2

\* a line that refers to a label that is not in the symbol table
LineUnresolved(raw) ==
    LET F(f) == f.kind \in {"MEMOP", "JUMP"} /\ f.labelref[1] \notin DOMAIN labels
    IN  F(parse_line(impl, rstrip(raw)))

\* the input lines that are MEMOP or JUMP with a labelref not in the table
Unresolved ==
    LET At(bad) == {i \in 1..Len(lines) : lines[i] \in bad}
    IN  At(UNION {IF LineUnresolved(l) THEN {l} ELSE {} :
                     l \in {lines[i] : i \in 1..Len(lines)}})

\* the input lines that match no grammar
Unparsed ==
    LET At(bad) == {i \in 1..Len(lines) : lines[i] \in bad}
    IN  At(UNION {IF NoGrammar(rstrip(l)) THEN {l} ELSE {} :
                     l \in {lines[i] : i \in 1..Len(lines)}})

\* transform's address counter just after line i
TAfter(i) == IF i < Len(t_trace) THEN t_trace[i + 1].address ELSE address

\* resolve's address counter just before line i, or at the end of the file
Before(i) == IF i <= Len(r_trace) THEN r_trace[i].address ELSE r_address

\* C15: the rewrite pass advances its address counter only after a line
\* that was rewritten without a fault (and is no COMMENT), so just before
\* any line its counter is the symbol-table pass's address of that line
\* minus the number of earlier MEMOP or JUMP lines whose labelref is not in
\* the symbol table; a line that matches no grammar advances neither
\* counter, and the rewrite pass's counter never exceeds the other.
C15_CounterLag ==
    LET Holds(unres, bad) ==
            /\ \A i \in 1..Len(t_trace) :
                  /\ t_trace[i].address =
                        r_trace[i].address - Cardinality(unres \cap 1..(i - 1))
                  /\ t_trace[i].address <= r_trace[i].address
                  /\ (TAfter(i) # t_trace[i].address) =>
                        /\ TAfter(i) = t_trace[i].address + 1
                        /\ t_trace[i].error = "none"
                        /\ t_trace[i].out # 0
                        /\ i \notin unres \cup bad
                  /\ (i \in unres) => (TAfter(i) = t_trace[i].address
                                        /\ After(i) = r_trace[i].address + 1)
                  /\ (i \in bad) => (TAfter(i) = t_trace[i].address
                                      /\ After(i) = r_trace[i].address)
            /\ address = Before(lnum + 1) - Cardinality(unres \cap 1..lnum)
            /\ address <= r_address
    IN  (pc # "resolve") => Holds(Unresolved, Unparsed)

\* C15, witness: after a line whose labelref is unknown and a line that
\* matches no grammar, an instruction was rewritten at an address one less
\* than the symbol-table pass gave it.
C15_Witness ==
    /\ pc = "exited"
    /\ \E i, j, k \in 1..Len(t_trace) :
          /\ i < j /\ j < k
          /\ t_trace[i].error = "KeyError"
          /\ t_trace[j].error = "SyntaxError"
          /\ t_trace[k].out # 0
          /\ t_trace[k].kind \in Instrs
          /\ t_trace[k].address = r_trace[k].address - 1
          /\ address = r_address - 1

====
